---------------------------- MODULE Spec2Model ----------------------------
(***************************************************************************)
(* Shoe Haven backend (src/server.py): the document store's collections,   *)
(* the payment provider's sessions, and the request handlers of the cart   *)
(* and checkout flow.  A handler is a coroutine: every `await` on the      *)
(* store or on the provider is one atomic step, and other requests may run *)
(* between two steps of the same handler.  A request occupies a slot of    *)
(* `req` from its arrival to its response, which is kept in `last`.        *)
(*                                                                         *)
(* Abstractions: prices and totals are integers (whole currency units);    *)
(* wall-clock timestamps are not kept, only whether a transaction carries  *)
(* an updated_at field; generated uuids are positions in the collection.   *)
(***************************************************************************)
EXTENDS Integers, Sequences, FiniteSets, TLC

(* ------------------------------ bounds -------------------------------- *)

\* number of requests that can be in flight at the same time
NumSlots == 2
\* number of checkout sessions the provider opens in one run
MaxSessions == 2
\* largest number of line items a cart holds in one run
MaxItems == 2
\* largest absolute quantity of one line item
MaxQty == 2
\* largest number of cart documents in one run
MaxCarts == 2
\* number of products of the demo catalog
DemoCount == 2
\* largest quantity of one line item in the runs that add quantities up
MaxSumQty == 5
\* number of user documents registration adds in one run
MaxNewUsers == 2
\* number of products an admin creates in one run
MaxCreated == 1

(* --------------------------- input domains ---------------------------- *)

Slots == 1..NumSlots
SessionIds == 1..MaxSessions
ProductIds == {"p1", "p2"}
\* a price an admin can set: ProductUpdate.price is an unvalidated float
Prices == {0, 2}
\* a quantity a client can send: CartItem.quantity is an unvalidated int
Quantities == {-1, 1, 2}
NoUser == "nobody"

VARIABLES
    users,      \* db.users: set of [id, email, role]
    products,   \* db.products: product id -> [price, stock, created_at], for the ids stored
    carts,      \* db.carts: sequence of [user_id, items]; a cart's id is its position
    txns,       \* db.payment_transactions: sequence of transaction documents
    orders,     \* db.orders: sequence of order documents
    psess,      \* the provider's checkout sessions; a session's id is its position
    req,        \* the requests in flight: slot -> request record
    last,       \* the response sent last, as the request record that ended
    clients,    \* how many requests the clients keep in flight at a time
    sessionCap, \* how many checkout sessions the clients ask for in a run
    qtyCap,     \* the largest quantity the clients let a line item reach in a run
    pre         \* the stored documents when the last status request arrived

db == <<users, products, carts, txns, orders>>
vars == <<users, products, carts, txns, orders, psess, req, last, clients, sessionCap,
          qtyCap, pre>>
scenario == <<clients, sessionCap, qtyCap>>

(* ------------------------------ documents ----------------------------- *)

NoItem == [product_id |-> "none", quantity |-> 0, size |-> "", color |-> ""]
NoStatus == [status |-> "", payment_status |-> "", amount_total |-> 0, currency |-> ""]
NoSnapshot == [carts |-> <<>>, txns |-> <<>>, orders |-> <<>>]
\* a ProductUpdate payload all of whose fields are None
NoFields == [f \in {} |-> 0]
\* a product of the demo catalog
DemoProduct == [price |-> 1, stock |-> 100, created_at |-> "seeded"]

IdleReq ==
    [op |-> "none", pc |-> "idle", user |-> NoUser, sid |-> 0, item |-> NoItem,
     cart_id |-> 0, items |-> <<>>, i |-> 0, total |-> 0, session |-> 0,
     st |-> NoStatus, verified |-> FALSE, paid |-> FALSE, logged |-> FALSE,
     email |-> "", view |-> <<>>, pid |-> "", payload |-> NoFields,
     code |-> 0, detail |-> ""]

\* find_one / update_one / delete_one act on the first document that matches
FirstCart(cs, u) ==
    IF \E k \in 1..Len(cs) : cs[k].user_id = u
    THEN CHOOSE k \in 1..Len(cs) :
            cs[k].user_id = u /\ \A j \in 1..(k - 1) : cs[j].user_id # u
    ELSE 0

FirstTxn(ts, s) ==
    IF \E k \in 1..Len(ts) : ts[k].session_id = s
    THEN CHOOSE k \in 1..Len(ts) :
            ts[k].session_id = s /\ \A j \in 1..(k - 1) : ts[j].session_id # s
    ELSE 0

\* db.carts.update_one({"user_id": u}, {"$set": {"items": items, ...}})
SetCartItems(cs, u, items) ==
    IF FirstCart(cs, u) = 0 THEN cs
    ELSE [cs EXCEPT ![FirstCart(cs, u)].items = items]

\* MarkPaid setting the payment_status and leaving the status as it is
MarkPaid_PaymentOnly(ts, s) ==
    IF FirstTxn(ts, s) = 0 THEN ts
    ELSE [ts EXCEPT ![FirstTxn(ts, s)] =
            [@ EXCEPT !.payment_status = "paid", !.has_updated_at = TRUE]]

\* db.payment_transactions.update_one({"session_id": s}, {"$set": {status, payment_status, updated_at}})
MarkPaid(ts, s) ==
    IF FirstTxn(ts, s) = 0 THEN ts
    ELSE [ts EXCEPT ![FirstTxn(ts, s)] =
            [@ EXCEPT !.status = "complete", !.payment_status = "paid",
                      !.has_updated_at = TRUE]]

\* get_current_user: the bearer token resolves to a stored user
Authenticated(u) == \E x \in users : x.id = u

\* the response: what the caller sees of the request
Respond(rq, code, detail) ==
    [IdleReq EXCEPT !.op = rq.op, !.pc = "done", !.user = rq.user, !.sid = rq.sid,
                    !.session = rq.session, !.st = rq.st,
                    !.verified = rq.verified, !.paid = rq.paid, !.logged = rq.logged,
                    !.email = rq.email, !.view = rq.view,
                    !.pid = rq.pid, !.payload = rq.payload,
                    !.code = code, !.detail = detail]

Snapshot == [carts |-> carts, txns |-> txns, orders |-> orders]

\* a request arrives in a free slot
\* the request goes on, or it is answered and leaves its slot
Place(r, rq) ==
    IF rq.pc = "done"
    THEN req' = [req EXCEPT ![r] = IdleReq] /\ last' = rq
    ELSE req' = [req EXCEPT ![r] = rq] /\ last' = last

\* a request arrives in a free slot and takes its first step
Arrive(r, rq) ==
    /\ req[r].pc = "idle"
    /\ Cardinality({q \in Slots : req[q].pc # "idle"}) < clients
    /\ Place(r, rq)
    /\ pre' = IF rq.op = "status" THEN Snapshot ELSE pre
    /\ UNCHANGED scenario

\* a request in flight takes its next step
Step(r, rq) ==
    /\ Place(r, rq)
    /\ UNCHANGED <<scenario, pre>>

\* a request rejected by get_current_user
Unauthorized(r, op, u) ==
    /\ ~Authenticated(u)
    /\ Arrive(r, Respond([IdleReq EXCEPT !.op = op, !.user = u], 401, "Not authenticated"))
    /\ UNCHANGED <<db, psess>>

\* get_admin_user with a role check that every stored user passes
IsAdmin_AnyRole(u) == \E x \in users : x.id = u

\* get_admin_user
IsAdmin(u) == \E x \in users : x.id = u /\ x.role = "admin"

\* a request rejected by get_admin_user
Forbidden(r, op, u) ==
    /\ Authenticated(u)
    /\ ~IsAdmin(u)
    /\ Arrive(r, Respond([IdleReq EXCEPT !.op = op, !.user = u], 403, "Admin access required"))
    /\ UNCHANGED <<db, psess>>

(* ------------------------------ cart ---------------------------------- *)

SameTriple(x, item) ==
    x.product_id = item.product_id /\ x.size = item.size /\ x.color = item.color

FirstItem(items, item) ==
    IF \E k \in 1..Len(items) : SameTriple(items[k], item)
    THEN CHOOSE k \in 1..Len(items) :
            SameTriple(items[k], item) /\ \A j \in 1..(k - 1) : ~SameTriple(items[j], item)
    ELSE 0

\* AddItem appending a line item whether or not its triple is in the cart
AddItem_AlwaysAppend(items, item) == Append(items, item)

\* AddItem overwriting the quantity of the matching line item
AddItem_SetQuantity(items, item) ==
    IF FirstItem(items, item) # 0
    THEN [items EXCEPT ![FirstItem(items, item)].quantity = item.quantity]
    ELSE Append(items, item)

\* add_to_cart: merge into the first matching line item, or append
AddItem(items, item) ==
    IF FirstItem(items, item) # 0
    THEN [items EXCEPT ![FirstItem(items, item)].quantity = @ + item.quantity]
    ELSE Append(items, item)

RemoveAt(items, k) ==
    [j \in 1..(Len(items) - 1) |-> IF j < k THEN items[j] ELSE items[j + 1]]

\* UpdateItem adding the quantity sent to the quantity stored
UpdateItem_AddQuantity(items, item) ==
    IF FirstItem(items, item) = 0 THEN items
    ELSE IF item.quantity <= 0 THEN RemoveAt(items, FirstItem(items, item))
    ELSE [items EXCEPT ![FirstItem(items, item)].quantity = @ + item.quantity]

\* UpdateItem appending the line item when its triple is not in the cart
UpdateItem_AppendMissing(items, item) ==
    IF FirstItem(items, item) = 0 THEN Append(items, item)
    ELSE IF item.quantity <= 0 THEN RemoveAt(items, FirstItem(items, item))
    ELSE [items EXCEPT ![FirstItem(items, item)].quantity = item.quantity]

\* update_cart_item: the first matching line item is removed or set
UpdateItem(items, item) ==
    IF FirstItem(items, item) = 0 THEN items
    ELSE IF item.quantity <= 0 THEN RemoveAt(items, FirstItem(items, item))
    ELSE [items EXCEPT ![FirstItem(items, item)].quantity = item.quantity]

\* the model's bounds on a cart
WithinBounds(items) ==
    /\ Len(items) <= MaxItems
    /\ \A k \in 1..Len(items) : items[k].quantity \in (-1)..qtyCap

\* the cart documents stored, and those a request in flight is about to insert
CartsToBe ==
    Len(carts) + Cardinality({q \in Slots : req[q].pc \in {"add_insert", "get_insert"}})

\* add_to_cart, line 275: the cart is read
AddFind(r, u, item) ==
    /\ Authenticated(u)
    /\ LET k == FirstCart(carts, u)
           rq == [IdleReq EXCEPT !.op = "add", !.user = u, !.item = item]
       IN  /\ k = 0 => CartsToBe < MaxCarts
           /\ WithinBounds(AddItem(IF k = 0 THEN <<>> ELSE carts[k].items, item))
           /\ Arrive(r, IF k = 0
                        THEN [rq EXCEPT !.pc = "add_insert"]
                        ELSE [rq EXCEPT !.pc = "add_write", !.cart_id = k,
                                        !.items = carts[k].items])
    /\ UNCHANGED <<db, psess>>

\* add_to_cart, lines 277-278: no cart was found, an empty one is inserted
AddInsert(r) ==
    /\ req[r].pc = "add_insert"
    /\ carts' = Append(carts, [user_id |-> req[r].user, items |-> <<>>])
    /\ Step(r, [req[r] EXCEPT !.pc = "add_write", !.cart_id = Len(carts) + 1])
    /\ UNCHANGED <<users, products, txns, orders, psess>>

\* AddWrite merging into the items stored at the time of the write
AddWrite_Reread(r) ==
    /\ req[r].pc = "add_write"
    /\ carts' = SetCartItems(carts, req[r].user,
                             AddItem(carts[FirstCart(carts, req[r].user)].items, req[r].item))
    /\ Step(r, Respond(req[r], 200, "Item added to cart"))
    /\ UNCHANGED <<users, products, txns, orders, psess>>

\* add_to_cart, lines 280-292: the items read are merged and written back
AddWrite(r) ==
    /\ req[r].pc = "add_write"
    /\ carts' = SetCartItems(carts, req[r].user, AddItem(req[r].items, req[r].item))
    /\ Step(r, Respond(req[r], 200, "Item added to cart"))
    /\ UNCHANGED <<users, products, txns, orders, psess>>

\* update_cart_item, lines 296-300: the cart is read
UpdateFind(r, u, item) ==
    /\ Authenticated(u)
    /\ LET k == FirstCart(carts, u)
           rq == [IdleReq EXCEPT !.op = "update", !.user = u, !.item = item]
       IN  Arrive(r, IF k = 0
                     THEN Respond(rq, 404, "Cart not found")
                     ELSE [rq EXCEPT !.pc = "upd_write", !.cart_id = k,
                                     !.items = carts[k].items])
    /\ UNCHANGED <<db, psess>>

\* update_cart_item, lines 301-313
UpdateWrite(r) ==
    /\ req[r].pc = "upd_write"
    /\ carts' = SetCartItems(carts, req[r].user, UpdateItem(req[r].items, req[r].item))
    /\ Step(r, [Respond(req[r], 200, "Cart updated") EXCEPT !.item = req[r].item])
    /\ UNCHANGED <<users, products, txns, orders, psess>>

\* ClearCart with an update that has lost its user_id filter
ClearCart_AllCarts(r, u) ==
    /\ Authenticated(u)
    /\ carts' = [k \in 1..Len(carts) |-> [carts[k] EXCEPT !.items = <<>>]]
    /\ Arrive(r, Respond([IdleReq EXCEPT !.op = "clear", !.user = u], 200, "Cart cleared"))
    /\ UNCHANGED <<users, products, txns, orders, psess>>

\* clear_cart
ClearCart(r, u) ==
    /\ Authenticated(u)
    /\ carts' = SetCartItems(carts, u, <<>>)
    /\ Arrive(r, Respond([IdleReq EXCEPT !.op = "clear", !.user = u], 200, "Cart cleared"))
    /\ UNCHANGED <<users, products, txns, orders, psess>>

\* get_cart, line 258: the cart is read
GetFind(r, u) ==
    /\ Authenticated(u)
    /\ LET k == FirstCart(carts, u)
           rq == [IdleReq EXCEPT !.op = "get", !.user = u]
       IN  /\ k = 0 => CartsToBe < MaxCarts
           /\ Arrive(r, IF k = 0
                        THEN [rq EXCEPT !.pc = "get_insert"]
                        ELSE IF carts[k].items = <<>>
                        THEN Respond([rq EXCEPT !.cart_id = k], 200, "cart")
                        ELSE [rq EXCEPT !.pc = "get_lookup", !.cart_id = k,
                                        !.items = carts[k].items, !.i = 1])
    /\ UNCHANGED <<db, psess>>

\* get_cart, lines 259-262: no cart was found, an empty one is inserted; the
\* loop over its items runs over nothing and the empty cart is returned
GetInsert(r) ==
    /\ req[r].pc = "get_insert"
    /\ carts' = Append(carts, [user_id |-> req[r].user, items |-> <<>>])
    /\ Step(r, Respond([req[r] EXCEPT !.cart_id = Len(carts) + 1], 200, "cart"))
    /\ UNCHANGED <<users, products, txns, orders, psess>>

\* GetLookup returning every stored item, with or without its product
GetLookup_KeepAll(r) ==
    /\ req[r].pc = "get_lookup"
    /\ LET item == req[r].items[req[r].i]
           view == Append(req[r].view,
                          [item |-> item,
                           product |-> IF item.product_id \in DOMAIN products
                                       THEN products[item.product_id]
                                       ELSE [price |-> 0, stock |-> 0,
                                             created_at |-> ""]])
       IN  Step(r, IF req[r].i < Len(req[r].items)
                   THEN [req[r] EXCEPT !.i = @ + 1, !.view = view]
                   ELSE Respond([req[r] EXCEPT !.view = view], 200, "cart"))
    /\ UNCHANGED <<db, psess>>

\* get_cart, lines 266-271: one product lookup of the loop; an item whose
\* product is found is returned with the product, the others are left out
GetLookup(r) ==
    /\ req[r].pc = "get_lookup"
    /\ LET item == req[r].items[req[r].i]
           view == IF item.product_id \in DOMAIN products
                   THEN Append(req[r].view,
                               [item |-> item, product |-> products[item.product_id]])
                   ELSE req[r].view
       IN  Step(r, IF req[r].i < Len(req[r].items)
                   THEN [req[r] EXCEPT !.i = @ + 1, !.view = view]
                   ELSE Respond([req[r] EXCEPT !.view = view], 200, "cart"))
    /\ UNCHANGED <<db, psess>>

(* ------------------------------- users -------------------------------- *)

AdminEmail == "admin@shoehaven.com"

\* str(uuid.uuid4()): an id no stored user has; users are never deleted
NewUserId == "n" \o ToString(Cardinality(users) + 1)

\* the user documents that registration stored
Registered == {x \in users : x.role = "user" /\ x.id \notin {"u1", "u2"}}

\* register, lines 161-163: a user with the email is looked for
RegFind(r, email) ==
    /\ Cardinality(Registered) + Cardinality({q \in Slots : req[q].pc = "reg_insert"})
          < MaxNewUsers
    /\ LET rq == [IdleReq EXCEPT !.op = "register", !.email = email]
       IN  Arrive(r, IF \E x \in users : x.email = email
                     THEN Respond(rq, 400, "Email already registered")
                     ELSE [rq EXCEPT !.pc = "reg_insert"])
    /\ UNCHANGED <<db, psess>>

\* register, lines 165-181: the user is inserted with role "user"
RegInsert(r) ==
    /\ req[r].pc = "reg_insert"
    /\ users' = users \cup {[id |-> NewUserId, email |-> req[r].email, role |-> "user"]}
    /\ Step(r, Respond([req[r] EXCEPT !.user = NewUserId], 200, "token"))
    /\ UNCHANGED <<products, carts, txns, orders, psess>>

\* login: the user is looked up by email and the password is verified; the
\* token returned carries the id of the stored user
Login(r, email, password_ok) ==
    /\ LET rq == [IdleReq EXCEPT !.op = "login", !.email = email]
       IN  Arrive(r, IF (\E x \in users : x.email = email) /\ password_ok
                     THEN Respond([rq EXCEPT !.user = (CHOOSE x \in users : x.email = email).id],
                                  200, "token")
                     ELSE Respond(rq, 401, "Invalid credentials"))
    /\ UNCHANGED <<db, psess>>

(* ------------------------------- seed --------------------------------- *)

\* the ids of a demo catalog: each run of seed_data generates new ones
DemoIds == {"d" \o ToString(Cardinality(DOMAIN products) + j) : j \in 1..DemoCount}

\* seed_data, lines 473-475: the products are counted
SeedCount(r) ==
    /\ LET rq == [IdleReq EXCEPT !.op = "seed"]
       IN  Arrive(r, IF DOMAIN products # {}
                     THEN Respond(rq, 200, "Data already seeded")
                     ELSE [rq EXCEPT !.pc = "seed_products"])
    /\ UNCHANGED <<db, psess>>

\* seed_data, lines 478-593: the demo catalog is inserted
SeedProducts(r) ==
    /\ req[r].pc = "seed_products"
    /\ products' = [p \in DOMAIN products \cup DemoIds |->
                        IF p \in DOMAIN products THEN products[p] ELSE DemoProduct]
    /\ Step(r, [req[r] EXCEPT !.pc = "seed_admin"])
    /\ UNCHANGED <<users, carts, txns, orders, psess>>

\* seed_data, lines 596-597: the admin account is looked for
SeedAdminFind(r) ==
    /\ req[r].pc = "seed_admin"
    /\ Step(r, IF \E x \in users : x.email = AdminEmail
               THEN Respond(req[r], 200, "Data seeded successfully")
               ELSE [req[r] EXCEPT !.pc = "seed_admin_insert"])
    /\ UNCHANGED <<db, psess>>

\* SeedAdminInsert writing the admin account over the user who has its email
SeedAdminInsert_Upsert(r) ==
    /\ req[r].pc = "seed_admin_insert"
    /\ users' = {x \in users : x.email # AdminEmail}
                 \cup {[id |-> IF \E x \in users : x.email = AdminEmail
                               THEN (CHOOSE x \in users : x.email = AdminEmail).id
                               ELSE NewUserId,
                        email |-> AdminEmail, role |-> "admin"]}
    /\ Step(r, Respond(req[r], 200, "Data seeded successfully"))
    /\ UNCHANGED <<products, carts, txns, orders, psess>>

\* seed_data, lines 598-608: the admin account is inserted
SeedAdminInsert(r) ==
    /\ req[r].pc = "seed_admin_insert"
    /\ users' = users \cup {[id |-> NewUserId, email |-> AdminEmail, role |-> "admin"]}
    /\ Step(r, Respond(req[r], 200, "Data seeded successfully"))
    /\ UNCHANGED <<products, carts, txns, orders, psess>>

(* ------------------------------ catalog ------------------------------- *)

\* update_product with a payload that sets the price
UpdateProduct(r, u, pid, price) ==
    /\ IsAdmin(u)
    /\ IF pid \in DOMAIN products
       THEN /\ products' = [products EXCEPT ![pid].price = price]
            /\ Arrive(r, Respond([IdleReq EXCEPT !.op = "update_product", !.user = u], 200, ""))
       ELSE /\ UNCHANGED products
            /\ Arrive(r, Respond([IdleReq EXCEPT !.op = "update_product", !.user = u],
                                 404, "Product not found"))
    /\ UNCHANGED <<users, carts, txns, orders, psess>>

\* delete_product
DeleteProduct(r, u, pid) ==
    /\ IsAdmin(u)
    /\ IF pid \in DOMAIN products
       THEN /\ products' = [p \in DOMAIN products \ {pid} |-> products[p]]
            /\ Arrive(r, Respond([IdleReq EXCEPT !.op = "delete_product", !.user = u],
                                 200, "Product deleted"))
       ELSE /\ UNCHANGED products
            /\ Arrive(r, Respond([IdleReq EXCEPT !.op = "delete_product", !.user = u],
                                 404, "Product not found"))
    /\ UNCHANGED <<users, carts, txns, orders, psess>>

\* str(uuid.uuid4()): an id no stored product has
NewProductId ==
    "c" \o ToString(CHOOSE n \in 1..(Cardinality(DOMAIN products) + 1) :
                        /\ ("c" \o ToString(n)) \notin DOMAIN products
                        /\ \A j \in 1..(n - 1) : ("c" \o ToString(j)) \in DOMAIN products)

\* create_product
CreateProduct(r, u, price) ==
    /\ IsAdmin(u)
    /\ Cardinality({p \in DOMAIN products : p \notin ProductIds}) < MaxCreated
    /\ products' = [p \in DOMAIN products \cup {NewProductId} |->
                        IF p \in DOMAIN products THEN products[p]
                        ELSE [price |-> price, stock |-> 100, created_at |-> "created"]]
    /\ Arrive(r, Respond([IdleReq EXCEPT !.op = "create_product", !.user = u,
                                         !.pid = NewProductId], 200, "product"))
    /\ UNCHANGED <<users, carts, txns, orders, psess>>

\* $set: the fields of the payload replace those of the document
SetFields(doc, payload) ==
    [f \in DOMAIN doc \cup DOMAIN payload |->
        IF f \in DOMAIN payload THEN payload[f] ELSE doc[f]]

\* UpdateProductSet replacing the document by the payload over a new product
UpdateProductSet_Replace(r, u, pid, payload) ==
    /\ IsAdmin(u)
    /\ LET rq == [IdleReq EXCEPT !.op = "update_product", !.user = u, !.pid = pid,
                                 !.payload = payload]
       IN  IF DOMAIN payload = {}
           THEN /\ UNCHANGED products
                /\ Arrive(r, Respond(rq, 400, "No fields to update"))
           ELSE IF pid \notin DOMAIN products
           THEN /\ UNCHANGED products
                /\ Arrive(r, Respond(rq, 404, "Product not found"))
           ELSE /\ products' = [products EXCEPT ![pid] = SetFields(DemoProduct, payload)]
                /\ Arrive(r, [rq EXCEPT !.pc = "up_read"])
    /\ UNCHANGED <<users, carts, txns, orders, psess>>

\* update_product, lines 236-242: the fields of the payload that are not None
\* are set on the product with the id; payload is those fields
UpdateProductSet(r, u, pid, payload) ==
    /\ IsAdmin(u)
    /\ LET rq == [IdleReq EXCEPT !.op = "update_product", !.user = u, !.pid = pid,
                                 !.payload = payload]
       IN  IF DOMAIN payload = {}
           THEN /\ UNCHANGED products
                /\ Arrive(r, Respond(rq, 400, "No fields to update"))
           ELSE IF pid \notin DOMAIN products
           THEN /\ UNCHANGED products
                /\ Arrive(r, Respond(rq, 404, "Product not found"))
           ELSE /\ products' = [products EXCEPT ![pid] = SetFields(@, payload)]
                /\ Arrive(r, [rq EXCEPT !.pc = "up_read"])
    /\ UNCHANGED <<users, carts, txns, orders, psess>>

\* update_product, lines 244-245: the product is read and returned; when it is
\* gone the response model rejects the empty result
UpdateProductFind(r) ==
    /\ req[r].pc = "up_read"
    /\ Step(r, IF req[r].pid \in DOMAIN products
               THEN Respond([req[r] EXCEPT !.view = <<products[req[r].pid]>>], 200, "product")
               ELSE Respond(req[r], 500, "Internal Server Error"))
    /\ UNCHANGED <<db, psess>>

\* get_all_orders
AdminOrders(r, u) ==
    /\ IsAdmin(u)
    /\ Arrive(r, Respond([IdleReq EXCEPT !.op = "admin_orders", !.user = u,
                                         !.view = orders], 200, "orders"))
    /\ UNCHANGED <<db, psess>>

\* get_admin_stats: counts and a sum, read in four awaits; only its answer
\* to the caller is kept
AdminStats(r, u) ==
    /\ IsAdmin(u)
    /\ Arrive(r, Respond([IdleReq EXCEPT !.op = "admin_stats", !.user = u], 200, "stats"))
    /\ UNCHANGED <<db, psess>>

(* ------------------------------ provider ------------------------------ *)

\* the provider keeps the amount in the currency's smallest unit
AmountTotal(amount) == amount * 100

\* the provider's getStatus
ProviderStatus(s) ==
    [status |-> IF psess[s].paid THEN "complete" ELSE "open",
     payment_status |-> IF psess[s].paid THEN "paid" ELSE "unpaid",
     amount_total |-> psess[s].amount_total,
     currency |-> psess[s].currency]

\* the customer pays on the provider's hosted page, which is reached through the
\* url that create_checkout_session returns after it has stored the transaction
CustomerPays(s) ==
    /\ s \in 1..Len(psess)
    /\ FirstTxn(txns, s) # 0
    /\ ~psess[s].paid
    /\ psess' = [psess EXCEPT ![s].paid = TRUE]
    /\ UNCHANGED <<db, req, last, scenario, pre>>

\* a session of the provider account for which this store holds no
\* transaction is paid: one whose create call raised, or one opened elsewhere
PaysUnrecorded(s) ==
    /\ s \in 1..Len(psess)
    /\ FirstTxn(txns, s) = 0
    /\ \A r \in Slots : req[r].session # s
    /\ ~psess[s].paid
    /\ psess' = [psess EXCEPT ![s].paid = TRUE]
    /\ UNCHANGED <<db, req, last, scenario, pre>>

(* ------------------------------ checkout ------------------------------ *)

\* CsLoadCart without the check for an item-less cart: the loop runs over no
\* item and the total of 0 is rejected
CsLoadCart_NoEmptyCheck(r, u) ==
    /\ Authenticated(u)
    /\ Len(psess) + Cardinality({q \in Slots : req[q].pc \in {"cs_price", "cs_provider"}})
          < sessionCap
    /\ LET k == FirstCart(carts, u)
           rq == [IdleReq EXCEPT !.op = "create_session", !.user = u]
       IN  Arrive(r, IF k = 0
                     THEN Respond(rq, 400, "Cart is empty")
                     ELSE IF carts[k].items = <<>>
                     THEN Respond(rq, 400, "Invalid cart total")
                     ELSE [rq EXCEPT !.pc = "cs_price", !.cart_id = k,
                                     !.items = carts[k].items, !.i = 1])
    /\ UNCHANGED <<db, psess>>

\* create_checkout_session, lines 327-329: the cart is read
CsLoadCart(r, u) ==
    /\ Authenticated(u)
    /\ Len(psess) + Cardinality({q \in Slots : req[q].pc \in {"cs_price", "cs_provider"}})
          < sessionCap
    /\ LET k == FirstCart(carts, u)
           rq == [IdleReq EXCEPT !.op = "create_session", !.user = u]
       IN  Arrive(r, IF k = 0 \/ carts[k].items = <<>>
                     THEN Respond(rq, 400, "Cart is empty")
                     ELSE [rq EXCEPT !.pc = "cs_price", !.cart_id = k,
                                     !.items = carts[k].items, !.i = 1])
    /\ UNCHANGED <<db, psess>>

\* CsPrice adding the price of a line without its quantity
CsPrice_NoQuantity(r) ==
    /\ req[r].pc = "cs_price"
    /\ LET item == req[r].items[req[r].i]
           total == IF item.product_id \in DOMAIN products
                    THEN req[r].total + products[item.product_id].price
                    ELSE req[r].total
       IN  Step(r, IF req[r].i < Len(req[r].items)
                   THEN [req[r] EXCEPT !.i = @ + 1, !.total = total]
                   ELSE IF total <= 0
                   THEN Respond(req[r], 400, "Invalid cart total")
                   ELSE [req[r] EXCEPT !.pc = "cs_provider", !.total = total])
    /\ UNCHANGED <<db, psess>>

\* CsPrice rejecting only a negative total
CsPrice_NegativeOnly(r) ==
    /\ req[r].pc = "cs_price"
    /\ LET item == req[r].items[req[r].i]
           total == IF item.product_id \in DOMAIN products
                    THEN req[r].total + products[item.product_id].price * item.quantity
                    ELSE req[r].total
       IN  Step(r, IF req[r].i < Len(req[r].items)
                   THEN [req[r] EXCEPT !.i = @ + 1, !.total = total]
                   ELSE IF total < 0
                   THEN Respond(req[r], 400, "Invalid cart total")
                   ELSE [req[r] EXCEPT !.pc = "cs_provider", !.total = total])
    /\ UNCHANGED <<db, psess>>

\* create_checkout_session, lines 332-339: one product lookup of the loop; the
\* check of the total follows the last lookup without an await
CsPrice(r) ==
    /\ req[r].pc = "cs_price"
    /\ LET item == req[r].items[req[r].i]
           total == IF item.product_id \in DOMAIN products
                    THEN req[r].total + products[item.product_id].price * item.quantity
                    ELSE req[r].total
       IN  Step(r, IF req[r].i < Len(req[r].items)
                   THEN [req[r] EXCEPT !.i = @ + 1, !.total = total]
                   ELSE IF total <= 0
                   THEN Respond(req[r], 400, "Invalid cart total")
                   ELSE [req[r] EXCEPT !.pc = "cs_provider", !.total = total])
    /\ UNCHANGED <<db, psess>>

NewSession(rq) ==
    [amount_total |-> AmountTotal(rq.total), currency |-> "usd", paid |-> FALSE,
     user_id |-> rq.user, cart_id |-> rq.cart_id]

NewTxn(rq, s) ==
    [session_id |-> s, user_id |-> rq.user, amount |-> rq.total, currency |-> "usd",
     status |-> "pending", payment_status |-> "initiated", cart_id |-> rq.cart_id,
     has_updated_at |-> FALSE]

\* CsProvider storing the transaction before the provider has answered
CsProvider_RecordFirst(r) ==
    /\ req[r].pc = "cs_provider"
    /\ txns' = Append(txns, NewTxn(req[r], Len(psess) + 1))
    /\ \/ /\ psess' = Append(psess, NewSession(req[r]))
          /\ Step(r, Respond([req[r] EXCEPT !.session = Len(psess) + 1], 200, "session"))
       \/ /\ psess' = psess
          /\ Step(r, Respond(req[r], 500, "Internal Server Error"))
       \/ /\ psess' = Append(psess, NewSession(req[r]))
          /\ Step(r, Respond(req[r], 500, "Internal Server Error"))
    /\ UNCHANGED <<users, products, carts, orders>>

\* create_checkout_session, line 358: the provider opens the session, or the call
\* raises (with or without a session opened on the provider's side)
CsProvider(r) ==
    /\ req[r].pc = "cs_provider"
    /\ \/ /\ psess' = Append(psess, NewSession(req[r]))
          /\ Step(r, [req[r] EXCEPT !.pc = "cs_insert", !.session = Len(psess) + 1])
       \/ /\ psess' = psess
          /\ Step(r, Respond(req[r], 500, "Internal Server Error"))
       \/ /\ psess' = Append(psess, NewSession(req[r]))
          /\ Step(r, Respond(req[r], 500, "Internal Server Error"))
    /\ UNCHANGED db

\* create_checkout_session, lines 361-374: the transaction record is inserted
CsInsert(r) ==
    /\ req[r].pc = "cs_insert"
    /\ txns' = Append(txns, NewTxn(req[r], req[r].session))
    /\ Step(r, Respond(req[r], 200, "session"))
    /\ UNCHANGED <<users, products, carts, orders, psess>>

\* StProvider going on to the stored transaction whatever the provider reports
StProvider_NoPaidCheck(r, u, s) ==
    /\ Authenticated(u)
    /\ LET rq == [IdleReq EXCEPT !.op = "status", !.user = u, !.sid = s]
       IN  \/ /\ s \in 1..Len(psess)
              /\ Arrive(r, [rq EXCEPT !.pc = "st_txn", !.st = ProviderStatus(s)])
           \/ Arrive(r, Respond(rq, 500, "Internal Server Error"))
    /\ UNCHANGED <<db, psess>>

\* get_checkout_status, line 382: the provider is asked for the session's status
StProvider(r, u, s) ==
    /\ Authenticated(u)
    /\ LET rq == [IdleReq EXCEPT !.op = "status", !.user = u, !.sid = s]
       IN  \/ /\ s \in 1..Len(psess)
              /\ Arrive(r, IF ProviderStatus(s).payment_status = "paid"
                           THEN [rq EXCEPT !.pc = "st_txn", !.st = ProviderStatus(s)]
                           ELSE Respond([rq EXCEPT !.st = ProviderStatus(s)], 200, "status"))
           \/ Arrive(r, Respond(rq, 500, "Internal Server Error"))
    /\ UNCHANGED <<db, psess>>

\* StTxn without the check that the transaction is not paid yet
StTxn_NoPaidCheck(r) ==
    /\ req[r].pc = "st_txn"
    /\ LET k == FirstTxn(txns, req[r].sid)
       IN  Step(r, IF k # 0
                   THEN [req[r] EXCEPT !.pc = "st_mark"]
                   ELSE Respond(req[r], 200, "status"))
    /\ UNCHANGED <<db, psess>>

\* StTxn going on when no transaction is stored for the session
StTxn_NoTxnCheck(r) ==
    /\ req[r].pc = "st_txn"
    /\ LET k == FirstTxn(txns, req[r].sid)
       IN  Step(r, IF k = 0 \/ txns[k].payment_status # "paid"
                   THEN [req[r] EXCEPT !.pc = "st_mark"]
                   ELSE Respond(req[r], 200, "status"))
    /\ UNCHANGED <<db, psess>>

\* get_checkout_status, lines 386-387: the stored transaction is read
StTxn(r) ==
    /\ req[r].pc = "st_txn"
    /\ LET k == FirstTxn(txns, req[r].sid)
       IN  Step(r, IF k # 0 /\ txns[k].payment_status # "paid"
                   THEN [req[r] EXCEPT !.pc = "st_mark"]
                   ELSE Respond(req[r], 200, "status"))
    /\ UNCHANGED <<db, psess>>

\* get_checkout_status, lines 388-391: the transaction is marked complete/paid
StMark(r) ==
    /\ req[r].pc = "st_mark"
    /\ txns' = MarkPaid(txns, req[r].sid)
    /\ Step(r, [req[r] EXCEPT !.pc = "st_cart"])
    /\ UNCHANGED <<users, products, carts, orders, psess>>

\* get_checkout_status, lines 394-395: the caller's cart is read
StCart(r) ==
    /\ req[r].pc = "st_cart"
    /\ LET k == FirstCart(carts, req[r].user)
       IN  Step(r, IF k # 0 /\ carts[k].items # <<>>
                   THEN [req[r] EXCEPT !.pc = "st_order", !.cart_id = k,
                                       !.items = carts[k].items]
                   ELSE Respond(req[r], 200, "status"))
    /\ UNCHANGED <<db, psess>>

\* StOrder storing an order without the items that were read
StOrder_NoItems(r) ==
    /\ req[r].pc = "st_order"
    /\ orders' = Append(orders, [user_id |-> req[r].user, items |-> <<>>,
                                 total |-> req[r].st.amount_total \div 100,
                                 status |-> "confirmed",
                                 payment_session_id |-> req[r].sid])
    /\ Step(r, [req[r] EXCEPT !.pc = "st_clear"])
    /\ UNCHANGED <<users, products, carts, txns, psess>>

\* get_checkout_status, lines 396-405: the order is inserted
StOrder(r) ==
    /\ req[r].pc = "st_order"
    /\ orders' = Append(orders, [user_id |-> req[r].user, items |-> req[r].items,
                                 total |-> req[r].st.amount_total \div 100,
                                 status |-> "confirmed",
                                 payment_session_id |-> req[r].sid])
    /\ Step(r, [req[r] EXCEPT !.pc = "st_clear"])
    /\ UNCHANGED <<users, products, carts, txns, psess>>

\* get_checkout_status, line 406: the caller's cart is emptied
StClear(r) ==
    /\ req[r].pc = "st_clear"
    /\ carts' = SetCartItems(carts, req[r].user, <<>>)
    /\ Step(r, Respond(req[r], 200, "status"))
    /\ UNCHANGED <<users, products, txns, orders, psess>>

\* WebhookVerify acting on the event whatever its signature
WebhookVerify_NoSignature(r, s, paid, verified) ==
    /\ verified => s \in 1..Len(psess) /\ (paid => psess[s].paid)
    /\ LET rq == [IdleReq EXCEPT !.op = "webhook", !.sid = s, !.paid = paid,
                                 !.verified = verified]
       IN  Arrive(r, IF paid
                     THEN [rq EXCEPT !.pc = "wh_update"]
                     ELSE Respond(rq, 200, "received"))
    /\ UNCHANGED <<db, psess>>

\* stripe_webhook, lines 417-426: handle_webhook verifies the signature and
\* parses the event; it raises on a bad signature, and the handler answers
\* {"received": True} from its except branch.  A verified event is one the
\* provider sent: it names a session of the provider, and says paid only of a
\* paid one.
WebhookVerify(r, s, paid, verified) ==
    /\ verified => s \in 1..Len(psess) /\ (paid => psess[s].paid)
    /\ LET rq == [IdleReq EXCEPT !.op = "webhook", !.sid = s, !.paid = paid,
                                 !.verified = verified]
       IN  Arrive(r, IF ~verified
                     THEN Respond([rq EXCEPT !.logged = TRUE], 200, "received")
                     ELSE IF paid
                     THEN [rq EXCEPT !.pc = "wh_update"]
                     ELSE Respond(rq, 200, "received"))
    /\ UNCHANGED <<db, psess>>

\* WebhookUpdate with an update that has lost its session_id filter
WebhookUpdate_AllTxns(r) ==
    /\ req[r].pc = "wh_update"
    /\ \/ /\ txns' = [k \in 1..Len(txns) |->
                        [txns[k] EXCEPT !.status = "complete", !.payment_status = "paid",
                                        !.has_updated_at = TRUE]]
          /\ Step(r, Respond(req[r], 200, "received"))
       \/ /\ txns' = txns
          /\ Step(r, Respond([req[r] EXCEPT !.logged = TRUE], 200, "received"))
    /\ UNCHANGED <<users, products, carts, orders, psess>>

\* stripe_webhook, lines 427-435: the update of the transaction, or the store
\* raises and the except branch logs the error
WebhookUpdate(r) ==
    /\ req[r].pc = "wh_update"
    /\ \/ /\ txns' = MarkPaid(txns, req[r].sid)
          /\ Step(r, Respond(req[r], 200, "received"))
       \/ /\ txns' = txns
          /\ Step(r, Respond([req[r] EXCEPT !.logged = TRUE], 200, "received"))
    /\ UNCHANGED <<users, products, carts, orders, psess>>

(* --------------------------- specifications --------------------------- *)

SeedUsers ==
    {[id |-> "u1", email |-> "u1@shoehaven.com", role |-> "user"],
     [id |-> "u2", email |-> "u2@shoehaven.com", role |-> "user"],
     [id |-> "admin", email |-> AdminEmail, role |-> "admin"]}

LineItem(p, q) == [product_id |-> p, quantity |-> q, size |-> "9", color |-> "Black"]

\* the store after seeding and registration: a catalog, users, no carts
Stored ==
    /\ users = SeedUsers
    /\ products = [p \in ProductIds |-> DemoProduct]
    /\ carts = <<>>
    /\ txns = <<>>
    /\ orders = <<>>
    /\ psess = <<>>
    /\ req = [r \in Slots |-> IdleReq]
    /\ last = IdleReq
    /\ pre = NoSnapshot

\* the steps of the requests in flight, by handler
CartSteps(r) ==
    \/ AddInsert(r)
    \/ AddWrite(r)
    \/ UpdateWrite(r)

SessionSteps(r) ==
    \/ CsPrice(r)
    \/ CsProvider(r)
    \/ CsInsert(r)

StatusSteps(r) ==
    \/ StTxn(r)
    \/ StMark(r)
    \/ StCart(r)
    \/ StOrder(r)
    \/ StClear(r)

Hook(r) ==
    \/ \E s \in SessionIds, paid \in BOOLEAN, verified \in BOOLEAN :
          WebhookVerify(r, s, paid, verified)
    \/ WebhookUpdate(r)

Provider == \E s \in SessionIds : CustomerPays(s)

\* a client buying one product
Shop(r, u) ==
    \/ AddFind(r, u, LineItem("p1", 1))
    \/ UpdateFind(r, u, LineItem("p1", 0))
    \/ ClearCart(r, u)
    \/ CsLoadCart(r, u)
    \/ \E s \in SessionIds : StProvider(r, u, s)

(* Overlapping requests of one user, one checkout session. *)

Init == Stored /\ clients = NumSlots /\ sessionCap = 1 /\ qtyCap = MaxQty

Next ==
    \/ \E r \in Slots : CartSteps(r)
    \/ \E r \in Slots : SessionSteps(r)
    \/ \E r \in Slots : StatusSteps(r)
    \/ \E r \in Slots : Shop(r, "u1")
    \/ \E r \in Slots : Hook(r)
    \/ Provider

Spec == Init /\ [][Next]_vars

(* One client at a time: each request is answered before the next arrives. *)

SeqInit == Stored /\ clients = 1 /\ sessionCap = MaxSessions /\ qtyCap = MaxQty

SeqNext ==
    \/ \E r \in Slots : CartSteps(r)
    \/ \E r \in Slots : SessionSteps(r)
    \/ \E r \in Slots : StatusSteps(r)
    \/ \E r \in Slots : Shop(r, "u1")
    \/ \E r \in Slots : Hook(r)
    \/ Provider

SeqSpec == SeqInit /\ [][SeqNext]_vars

(* One client at a time, and the provider delivers no webhook. *)

PollNext ==
    \/ \E r \in Slots : CartSteps(r)
    \/ \E r \in Slots : SessionSteps(r)
    \/ \E r \in Slots : StatusSteps(r)
    \/ \E r \in Slots : Shop(r, "u1")
    \/ Provider

PollSpec == SeqInit /\ [][PollNext]_vars

(* One client at a time: carts of several products, a catalog whose prices *)
(* change, sessions opened and not yet paid.                               *)

Fill(r, u) ==
    \/ \E p \in ProductIds, q \in Quantities : AddFind(r, u, LineItem(p, q))
    \/ \E p \in ProductIds : UpdateFind(r, u, LineItem(p, 0))
    \/ ClearCart(r, u)

Admin(r) ==
    \/ \E price \in Prices : UpdateProduct(r, "admin", "p1", price)
    \/ UpdateProduct(r, "admin", "p2", 2)
    \/ DeleteProduct(r, "admin", "p2")

PriceInit == Stored /\ clients = 1 /\ sessionCap = 1 /\ qtyCap = MaxQty

PriceNext ==
    \/ \E r \in Slots : CartSteps(r)
    \/ \E r \in Slots : SessionSteps(r)
    \/ \E r \in Slots : Fill(r, "u1")
    \/ \E r \in Slots, u \in {"u1", "u2"} : CsLoadCart(r, u)
    \/ \E r \in Slots : Unauthorized(r, "create_session", NoUser)
    \/ \E r \in Slots : Admin(r)

PriceSpec == PriceInit /\ [][PriceNext]_vars

(* One client at a time: the carts of two users, quantities that add up,   *)
(* updates that set and remove, the populated view, a product deleted.     *)

\* quantities an add sends, and quantities an update sends
AddQuantities == {-1, 2, 3}
SetQuantities == {-1, 0, 1}

GetSteps(r) ==
    \/ GetInsert(r)
    \/ GetLookup(r)

Basket(r) ==
    \/ \E p \in ProductIds, q \in AddQuantities : AddFind(r, "u1", LineItem(p, q))
    \/ \E p \in ProductIds, q \in SetQuantities : UpdateFind(r, "u1", LineItem(p, q))
    \/ UpdateFind(r, "u2", LineItem("p2", 1))
    \/ \E u \in {"u1", "u2"} : ClearCart(r, u)
    \/ \E u \in {"u1", "u2"} : GetFind(r, u)

CartInit == Stored /\ clients = 1 /\ sessionCap = 0 /\ qtyCap = MaxSumQty

CartNext ==
    \/ \E r \in Slots : CartSteps(r)
    \/ \E r \in Slots : GetSteps(r)
    \/ \E r \in Slots : Basket(r)
    \/ \E r \in Slots : DeleteProduct(r, "admin", "p2")

CartSpec == CartInit /\ [][CartNext]_vars

(* One client at a time, one checkout session: orders, a second user, and  *)
(* an admin who reprices and deletes the product that was bought.          *)

Bystander(r) ==
    \/ GetFind(r, "u2")
    \/ GetInsert(r)
    \/ ClearCart(r, "u2")

Reprice(r) ==
    \/ UpdateProduct(r, "admin", "p1", 2)
    \/ DeleteProduct(r, "admin", "p1")

OrderInit == Stored /\ clients = 1 /\ sessionCap = 1 /\ qtyCap = MaxQty

OrderNext ==
    \/ \E r \in Slots : CartSteps(r)
    \/ \E r \in Slots : SessionSteps(r)
    \/ \E r \in Slots : StatusSteps(r)
    \/ \E r \in Slots : Shop(r, "u1")
    \/ \E r \in Slots : Hook(r)
    \/ \E r \in Slots : Bystander(r)
    \/ \E r \in Slots : Reprice(r)
    \/ Provider

OrderSpec == OrderInit /\ [][OrderNext]_vars

(* Overlapping registrations and seed runs on a store that starts empty.   *)

Emails == {AdminEmail, "ann@shoehaven.com"}

Empty ==
    /\ users = {}
    /\ products = [p \in {} |-> DemoProduct]
    /\ carts = <<>>
    /\ txns = <<>>
    /\ orders = <<>>
    /\ psess = <<>>
    /\ req = [r \in Slots |-> IdleReq]
    /\ last = IdleReq
    /\ pre = NoSnapshot

SeedSteps(r) ==
    \/ SeedCount(r)
    \/ SeedProducts(r)
    \/ SeedAdminFind(r)
    \/ SeedAdminInsert(r)

Signup(r) ==
    \/ \E email \in Emails : RegFind(r, email)
    \/ RegInsert(r)

UserInit == Empty /\ clients = NumSlots /\ sessionCap = 0 /\ qtyCap = MaxQty

UserNext ==
    \/ \E r \in Slots : Signup(r)
    \/ \E r \in Slots : SeedSteps(r)

UserSpec == UserInit /\ [][UserNext]_vars

(* Overlapping requests to the admin-only routes by an admin, by a user    *)
(* and by a caller without a valid token.                                  *)

AdminOps ==
    {"create_product", "update_product", "delete_product", "admin_orders", "admin_stats"}

Callers == {"admin", "u1", NoUser}

Payloads == {NoFields, [price |-> 2], [stock |-> 5], [price |-> 0, stock |-> 5]}

Backoffice(r, u) ==
    \/ CreateProduct(r, u, 2)
    \/ \E pid \in {"p1", "p9"}, payload \in Payloads : UpdateProductSet(r, u, pid, payload)
    \/ \E pid \in ProductIds : DeleteProduct(r, u, pid)
    \/ AdminOrders(r, u)
    \/ AdminStats(r, u)
    \/ \E op \in AdminOps : Forbidden(r, op, u)
    \/ \E op \in AdminOps : Unauthorized(r, op, u)

AdminInit == Stored /\ clients = NumSlots /\ sessionCap = 0 /\ qtyCap = MaxQty

AdminNext ==
    \/ \E r \in Slots, u \in Callers : Backoffice(r, u)
    \/ \E r \in Slots : UpdateProductFind(r)
    \/ \E r \in Slots, email \in {AdminEmail, "u1@shoehaven.com"}, ok \in BOOLEAN :
          Login(r, email, ok)

AdminSpec == AdminInit /\ [][AdminNext]_vars

(* Overlapping cart requests of one user, two products.                    *)

Juggle(r) ==
    \/ \E p \in ProductIds : AddFind(r, "u1", LineItem(p, 1))
    \/ \E q \in {0, 2} : UpdateFind(r, "u1", LineItem("p1", q))
    \/ ClearCart(r, "u1")

RaceInit == Stored /\ clients = NumSlots /\ sessionCap = 0 /\ qtyCap = MaxQty

RaceNext ==
    \/ \E r \in Slots : CartSteps(r)
    \/ \E r \in Slots : Juggle(r)

RaceSpec == RaceInit /\ [][RaceNext]_vars

(* One client at a time, one checkout session: a second user who polls the *)
(* first user's session, and sessions paid without a stored transaction.   *)

Intruder(r) ==
    \/ AddFind(r, "u2", LineItem("p2", 1))
    \/ \E s \in SessionIds : StProvider(r, "u2", s)

LinkInit == Stored /\ clients = 1 /\ sessionCap = 1 /\ qtyCap = MaxQty

LinkNext ==
    \/ \E r \in Slots : CartSteps(r)
    \/ \E r \in Slots : SessionSteps(r)
    \/ \E r \in Slots : StatusSteps(r)
    \/ \E r \in Slots : Shop(r, "u1")
    \/ \E r \in Slots : Intruder(r)
    \/ \E r \in Slots : Hook(r)
    \/ Provider
    \/ \E s \in SessionIds : PaysUnrecorded(s)

LinkSpec == LinkInit /\ [][LinkNext]_vars

(* ------------------------------- claims ------------------------------- *)

\* no request is in flight
Quiet == \A r \in Slots : req[r].pc = "idle"

OrdersOf(os, s) == {k \in 1..Len(os) : os[k].payment_session_id = s}

TxnPaid(ts, s) == FirstTxn(ts, s) # 0 /\ ts[FirstTxn(ts, s)].payment_status = "paid"

TxnPending(ts, s) ==
    /\ FirstTxn(ts, s) # 0
    /\ ts[FirstTxn(ts, s)].status = "pending"
    /\ ts[FirstTxn(ts, s)].payment_status = "initiated"

CartItemsOf(cs, u) == IF FirstCart(cs, u) = 0 THEN <<>> ELSE cs[FirstCart(cs, u)].items

\* the last response is that of a status request that saw the provider report paid
PolledPaid ==
    /\ Quiet
    /\ last.op = "status"
    /\ last.code = 200
    /\ last.st.payment_status = "paid"

\* C1: for every payment session id, after any interleaving of status polls
\* and webhook deliveries, at most one order carries that payment_session_id.
C1_AtMostOneOrderPerSession ==
    \A s \in SessionIds : Cardinality(OrdersOf(orders, s)) <= 1

\* C2: sequential polls after the provider reports paid.  The poll that finds
\* the stored transaction pending and the caller's cart non-empty leaves exactly
\* one order for the session, the transaction paid and the cart empty; a poll
\* that finds the transaction already paid changes no transaction, order or
\* cart.  Both return the provider's status fields of the paid session.
C2_PollTwice ==
    PolledPaid =>
        /\ last.st = [status |-> "complete", payment_status |-> "paid",
                      amount_total |-> psess[last.sid].amount_total, currency |-> "usd"]
        /\ (TxnPending(pre.txns, last.sid) /\ CartItemsOf(pre.carts, last.user) # <<>>) =>
              /\ OrdersOf(pre.orders, last.sid) = {}
              /\ Cardinality(OrdersOf(orders, last.sid)) = 1
              /\ Len(orders) = Len(pre.orders) + 1
              /\ TxnPaid(txns, last.sid)
              /\ CartItemsOf(carts, last.user) = <<>>
        /\ TxnPaid(pre.txns, last.sid) =>
              /\ txns = pre.txns
              /\ orders = pre.orders
              /\ carts = pre.carts

\* a second poll in a row: the transaction was already paid, its order exists
C2_SecondPoll ==
    /\ PolledPaid
    /\ TxnPaid(pre.txns, last.sid)
    /\ Cardinality(OrdersOf(pre.orders, last.sid)) = 1
    /\ CartItemsOf(pre.carts, last.user) = <<>>

\* C3: once the provider reports a session paid and a status poll of the user
\* who owns the stored transaction, made with a non-empty cart, has completed,
\* an order with that payment_session_id exists, whether that poll or an
\* earlier webhook delivery saw the payment first.
C3_OrderAfterPoll ==
    (/\ PolledPaid
     /\ FirstTxn(pre.txns, last.sid) # 0
     /\ pre.txns[FirstTxn(pre.txns, last.sid)].user_id = last.user
     /\ CartItemsOf(pre.carts, last.user) # <<>>)
    => OrdersOf(orders, last.sid) # {}

\* C4: without webhook deliveries, once the polls have returned, no paid
\* transaction lacks an order for its session.
C4_PaidHasOrder ==
    Quiet => \A k \in 1..Len(txns) :
                txns[k].payment_status = "paid" => OrdersOf(orders, txns[k].session_id) # {}

\* a webhook delivery gets its answer in this step
HookReturns ==
    \/ \E r \in Slots : req[r].op = "webhook" /\ req'[r].pc = "idle"
    \/ req' = req /\ psess' = psess /\ last'.op = "webhook" /\ last' # last

\* a step of the webhook handler
HookStep ==
    \/ HookReturns
    \/ \E r \in Slots : req[r].pc = "idle" /\ req'[r].op = "webhook"

\* C5: a webhook delivery creates no order and modifies no cart; all it can
\* change is the transaction with the delivered session id, whose status and
\* payment_status become complete/paid (and whose updated_at is set); a
\* transaction that is already paid keeps its status and payment_status.
C5_WebhookFrame ==
    [][HookStep =>
        /\ orders' = orders /\ carts' = carts /\ users' = users
        /\ products' = products /\ psess' = psess
        /\ Len(txns') = Len(txns)
        /\ \A k \in 1..Len(txns) :
              /\ \/ txns'[k] = txns[k]
                 \/ /\ HookReturns
                    /\ txns[k].session_id = last'.sid
                    /\ txns'[k] = [txns[k] EXCEPT !.status = "complete",
                                                  !.payment_status = "paid",
                                                  !.has_updated_at = TRUE]
              /\ txns[k].payment_status = "paid" =>
                    /\ txns'[k].status = txns[k].status
                    /\ txns'[k].payment_status = txns[k].payment_status]_vars

\* a verified paid delivery has marked one of two transactions; no order exists
C5_Delivered ==
    /\ Quiet
    /\ last.op = "webhook" /\ last.verified /\ last.paid /\ ~last.logged
    /\ TxnPaid(txns, last.sid)
    /\ \E k \in 1..Len(txns) : txns[k].session_id # last.sid /\ txns[k].status = "pending"
    /\ CartItemsOf(carts, "u1") # <<>>
    /\ orders = <<>>

\* C6: a webhook delivery whose signature does not verify, or whose processing
\* raises, is answered with the success response and leaves every transaction,
\* order and cart as it was.
C6_WebhookDropped ==
    [][HookReturns =>
        /\ last'.code = 200
        /\ last'.detail = "received"
        /\ (~last'.verified \/ last'.logged) =>
              (txns' = txns /\ orders' = orders /\ carts' = carts)]_vars

\* a forged paid event for a pending transaction was answered
C6_Forged ==
    /\ Quiet
    /\ last.op = "webhook" /\ ~last.verified /\ last.paid
    /\ last.code = 200
    /\ TxnPending(txns, last.sid)

\* C7: a transaction is stored only by a create-session request that holds the
\* session the provider returned, and it starts pending/initiated; a request
\* whose provider call fails stores nothing; every stored transaction carries a
\* session id of the provider.
C7_TxnAfterProvider ==
    /\ [](\A k \in 1..Len(txns) : txns[k].session_id \in 1..Len(psess))
    /\ [][/\ txns' # txns /\ Len(txns') # Len(txns) =>
             \E r \in Slots :
                /\ req[r].pc = "cs_insert"
                /\ req[r].session \in 1..Len(psess)
                /\ Len(txns') = Len(txns) + 1
                /\ SubSeq(txns', 1, Len(txns)) = txns
                /\ txns'[Len(txns')].session_id = req[r].session
                /\ txns'[Len(txns')].status = "pending"
                /\ txns'[Len(txns')].payment_status = "initiated"
          /\ \A r \in Slots :
                (req[r].pc = "cs_provider" /\ req'[r].pc = "idle") =>
                    (last'.code = 500 /\ txns' = txns)]_vars

\* a provider call has failed after a first session was stored: the provider
\* holds a session for which no transaction exists
C7_ProviderFailed ==
    /\ Quiet
    /\ last.op = "create_session" /\ last.code = 500
    /\ Len(txns) = 1
    /\ Len(psess) = 2

\* the sum, over the line items, of the catalog's price times the quantity; a
\* line whose product is not in the catalog has no price and adds nothing
LinePrice(item, cat) ==
    IF item.product_id \in DOMAIN cat THEN cat[item.product_id].price * item.quantity ELSE 0

RECURSIVE CartSum(_, _)
CartSum(items, cat) ==
    IF items = <<>> THEN 0
    ELSE LinePrice(Head(items), cat) + CartSum(Tail(items), cat)

SessionOpened == Quiet /\ last.op = "create_session" /\ last.code = 200

\* C8: the amount create-session sends to the provider and records on the
\* transaction is the sum, over the cart's stored line items, of the product's
\* price in the catalog at the time of the call times the quantity.
C8_TotalIsCatalogSum ==
    SessionOpened =>
        /\ FirstTxn(txns, last.session) # 0
        /\ txns[FirstTxn(txns, last.session)].amount
              = CartSum(CartItemsOf(carts, last.user), products)
        /\ psess[last.session].amount_total
              = AmountTotal(CartSum(CartItemsOf(carts, last.user), products))

\* a session was opened for a cart of two lines after a price was changed
C8_Repriced ==
    /\ SessionOpened
    /\ Len(CartItemsOf(carts, last.user)) = 2
    /\ products["p1"].price = 2
    /\ txns[FirstTxn(txns, last.session)].amount = 5

NoItems(u) == CartItemsOf(carts, u) = <<>>

\* C9: create-session for a user who has no cart, or whose cart has no items,
\* is answered 400 "Cart is empty"; it opens no provider session and stores no
\* transaction, and the handler goes no further.
C9_EmptyCartRejected ==
    [][/\ (/\ req' = req
           /\ last' # last
           /\ last'.op = "create_session"
           /\ Authenticated(last'.user)
           /\ NoItems(last'.user)) =>
              /\ last'.code = 400
              /\ last'.detail = "Cart is empty"
              /\ psess' = psess
              /\ txns' = txns
       /\ \A r \in Slots :
             (req[r].pc = "idle" /\ req'[r].op = "create_session") =>
                 ~NoItems(req'[r].user)]_vars

\* create-session was rejected for a user without a cart document
C9_NoCart ==
    /\ Quiet
    /\ last.op = "create_session" /\ last.code = 400 /\ last.detail = "Cart is empty"
    /\ FirstCart(carts, last.user) = 0

\* C10: create-session is answered 400, opens no provider session and stores no
\* transaction whenever the recomputed total is <= 0, and goes on to the
\* provider otherwise; every stored transaction has an amount > 0.
C10_TotalPositive ==
    /\ [](\A k \in 1..Len(txns) : txns[k].amount > 0)
    /\ [][\A r \in Slots :
            (/\ req[r].pc = "cs_price"
             /\ req[r].i = Len(req[r].items)
             /\ req'[r] # req[r]) =>
                IF CartSum(CartItemsOf(carts, req[r].user), products) <= 0
                THEN /\ req'[r].pc = "idle"
                     /\ last'.op = "create_session"
                     /\ last'.code = 400
                     /\ last'.detail = "Invalid cart total"
                     /\ psess' = psess
                     /\ txns' = txns
                ELSE req'[r].pc = "cs_provider"]_vars

\* create-session was rejected for a cart whose only product was deleted
C10_DeletedProduct ==
    /\ Quiet
    /\ last.op = "create_session" /\ last.detail = "Invalid cart total"
    /\ Len(CartItemsOf(carts, last.user)) = 1
    /\ CartItemsOf(carts, last.user)[1].product_id \notin DOMAIN products
    /\ CartItemsOf(carts, last.user)[1].quantity > 0

\* the line items of a cart have pairwise different (product_id, size, color)
DistinctTriples(items) ==
    \A i, j \in 1..Len(items) : SameTriple(items[i], items[j]) => i = j

\* C11: in every reachable state, whatever the interleaving of add, update,
\* clear and status requests, each stored cart holds at most one line item
\* per (product_id, size, color) triple.
C11_OneItemPerTriple ==
    \A k \in 1..Len(carts) : DistinctTriples(carts[k].items)

\* two adds of the same triple have been merged into one line item
C11_MergedAdd ==
    /\ Quiet
    /\ last.op = "add"
    /\ \E k \in 1..Len(carts) : carts[k].items = <<LineItem("p1", 2)>>

\* C12: in every reachable state every stored line item has quantity >= 1,
\* whatever integer quantities the add and update requests carry.
C12_QuantityAtLeastOne ==
    \A k \in 1..Len(carts) : \A i \in 1..Len(carts[k].items) :
        carts[k].items[i].quantity >= 1

\* an add or an update writes the cart and is answered in this step
Writes(r, pc) == req[r].pc = pc /\ req'[r].pc = "idle"

HasTriple(items, item) == \E k \in 1..Len(items) : SameTriple(items[k], item)

\* the carts of the users other than u are left as they are
OthersKept(u) ==
    /\ Len(carts') >= Len(carts)
    /\ \A k \in 1..Len(carts) : carts[k].user_id # u => carts'[k] = carts[k]

\* C13: with one request at a time, an add of a triple the cart holds
\* increases that line item's quantity by the quantity sent and leaves the
\* other line items, their number and their order as they were; an add of a
\* triple the cart does not hold appends one line item with the quantity sent.
C13_AddSemantics ==
    [][\A r \in Slots : Writes(r, "add_write") =>
         LET u == req[r].user
             item == req[r].item
             old == CartItemsOf(carts, u)
             new == CartItemsOf(carts', u)
         IN  /\ last'.code = 200
             /\ OthersKept(u)
             /\ IF HasTriple(old, item)
                THEN /\ Len(new) = Len(old)
                     /\ \A k \in 1..Len(old) :
                           new[k] = IF SameTriple(old[k], item)
                                    THEN [old[k] EXCEPT !.quantity = @ + item.quantity]
                                    ELSE old[k]
                ELSE new = old \o <<item>>]_vars

\* add 2 and add 3 of one triple have left one line item of quantity 5, after
\* the line item of another product
C13_TwoPlusThree ==
    /\ Quiet
    /\ last.op = "add"
    /\ CartItemsOf(carts, "u1") = <<LineItem("p2", 2), LineItem("p1", 5)>>

\* the line items that do not have the triple of item, in their order
Without(items, item) == SelectSeq(items, LAMBDA x : ~SameTriple(x, item))

\* C14: with one request at a time, an update of a triple the cart holds
\* removes that line item when the quantity sent is <= 0 and otherwise sets
\* its quantity to the quantity sent; the other line items and their order
\* are unchanged.
C14_UpdateSemantics ==
    [][\A r \in Slots :
         (Writes(r, "upd_write") /\ HasTriple(CartItemsOf(carts, req[r].user), req[r].item)) =>
         LET u == req[r].user
             item == req[r].item
             old == CartItemsOf(carts, u)
             new == CartItemsOf(carts', u)
         IN  /\ last'.code = 200
             /\ OthersKept(u)
             /\ IF item.quantity <= 0
                THEN new = Without(old, item)
                ELSE /\ Len(new) = Len(old)
                     /\ \A k \in 1..Len(old) :
                           new[k] = IF SameTriple(old[k], item)
                                    THEN [old[k] EXCEPT !.quantity = item.quantity]
                                    ELSE old[k]]_vars

\* an update has set the quantity of the second of two line items to 1
C14_SetToOne ==
    /\ Quiet
    /\ last.op = "update" /\ last.code = 200
    /\ last.item = LineItem("p1", 1)
    /\ CartItemsOf(carts, "u1") = <<LineItem("p2", 5), LineItem("p1", 1)>>

\* C15: an update of a triple the cart does not hold is answered with success
\* and leaves the stored carts as they are; an update of a user who has no cart
\* is answered 404 at once and stores no cart.
C15_UpdateNoMatch ==
    [][/\ \A r \in Slots :
            (Writes(r, "upd_write")
                /\ ~HasTriple(CartItemsOf(carts, req[r].user), req[r].item)) =>
                    (last'.code = 200 /\ carts' = carts)
       /\ \A r \in Slots :
            (req[r].pc = "idle" /\ req'[r].op = "update") =>
                FirstCart(carts, req'[r].user) # 0
       /\ (/\ req' = req
           /\ last' # last
           /\ last'.op = "update"
           /\ FirstCart(carts, last'.user) = 0) =>
              /\ last'.code = 404
              /\ last'.detail = "Cart not found"
              /\ carts' = carts]_vars

\* an update of a product that is not in a cart of one line item was answered
\* with success
C15_NoMatch ==
    /\ Quiet
    /\ last.op = "update" /\ last.code = 200
    /\ last.item = LineItem("p2", 1)
    /\ CartItemsOf(carts, "u1") = <<LineItem("p1", 3)>>
    /\ last.user = "u1"

\* a clear request is answered in this step
Clears ==
    /\ req' = req
    /\ last'.op = "clear"
    /\ last' # last \/ carts' # carts

\* C16: clear empties the items of the caller's cart whatever it held, leaves
\* the carts of the other users, the orders and the transactions as they were,
\* and stores no cart when the caller had none.
C16_ClearFrame ==
    [][Clears =>
        /\ last'.code = 200
        /\ Len(carts') = Len(carts)
        /\ \A k \in 1..Len(carts) :
              /\ carts'[k].user_id = carts[k].user_id
              /\ carts[k].user_id # last'.user => carts'[k] = carts[k]
        /\ CartItemsOf(carts', last'.user) = <<>>
        /\ orders' = orders
        /\ txns' = txns
        /\ users' = users /\ products' = products /\ psess' = psess]_vars

\* a user without a cart has cleared while another user's cart held an item
\* and a transaction was stored
C16_ClearedNoCart ==
    /\ Quiet
    /\ last.op = "clear" /\ last.user = "u2"
    /\ FirstCart(carts, "u2") = 0
    /\ CartItemsOf(carts, "u1") # <<>>
    /\ Len(txns) = 1

\* C17: in every reachable state there is at most one cart document per user,
\* also when the user's first requests overlap.
C17_OneCartPerUser ==
    \A j, k \in 1..Len(carts) : carts[j].user_id = carts[k].user_id => j = k

\* a get request is answered in this step
GetReturns ==
    \/ \E r \in Slots : req[r].op = "get" /\ req'[r].pc = "idle"
    \/ req' = req /\ last'.op = "get" /\ last' # last

\* the stored items whose product is in the catalog, each with its product
Populated(items, cat) ==
    LET kept == SelectSeq(items, LAMBDA x : x.product_id \in DOMAIN cat)
    IN  [k \in 1..Len(kept) |-> [item |-> kept[k], product |-> cat[kept[k].product_id]]]

\* C18: with one request at a time, get returns the stored line items whose
\* product exists, each with its product, and leaves out exactly those whose
\* product was deleted; neither get nor the deletion of a product changes the
\* items of a stored cart or an order.
C18_PopulatedView ==
    [][/\ GetReturns =>
            /\ last'.code = 200
            /\ last'.view = Populated(CartItemsOf(carts', last'.user), products)
            /\ \A k \in 1..Len(carts) : carts'[k] = carts[k]
            /\ orders' = orders
       /\ products' # products => (carts' = carts /\ orders' = orders)]_vars

\* get has returned one of the two stored line items: the product of the
\* other was deleted
C18_Omitted ==
    /\ Quiet
    /\ last.op = "get" /\ last.user = "u1"
    /\ "p2" \notin DOMAIN products
    /\ Len(CartItemsOf(carts, "u1")) = 2
    /\ Len(last.view) = 1
    /\ last.view[1].item.product_id = "p1"

\* C19: with one request at a time, the order a status poll creates carries
\* the line items the caller's cart held when the poll was made; and no step
\* of any request changes or removes an order that exists.
C19_OrderSnapshot ==
    /\ []((PolledPaid /\ Len(orders) > Len(pre.orders)) =>
            /\ Len(orders) = Len(pre.orders) + 1
            /\ orders[Len(orders)].items = CartItemsOf(pre.carts, last.user)
            /\ orders[Len(orders)].items # <<>>
            /\ orders[Len(orders)].user_id = last.user
            /\ orders[Len(orders)].payment_session_id = last.sid)
    /\ [][/\ Len(orders') >= Len(orders)
          /\ SubSeq(orders', 1, Len(orders)) = orders]_vars

\* the product of an order's line item was deleted after the order was made
C19_ProductGone ==
    /\ Quiet
    /\ last.op = "delete_product" /\ last.code = 200
    /\ Len(orders) = 1
    /\ orders[1].items = <<LineItem("p1", 2)>>
    /\ "p1" \notin DOMAIN products

\* C20: in every reachable state no two stored users have the same email, also
\* when registrations and seed runs overlap.
C20_EmailUnique ==
    \A x, y \in users : x.email = y.email => x = y

\* C21: a stored user document is never changed or removed, so its role stays
\* what it was; a document that register stores has role user, and only seed
\* stores a document with role admin.
C21_RoleImmutable ==
    [][/\ \A x \in users : x \in users'
       /\ \A y \in users' \ users :
             /\ \A x \in users : x.id # y.id
             /\ \/ y.role = "user" /\ \E r \in Slots : Writes(r, "reg_insert")
                \/ /\ y.role = "admin"
                   /\ y.email = AdminEmail
                   /\ \E r \in Slots : Writes(r, "seed_admin_insert")]_vars

\* seed has run on a store where a registered user holds the admin's email:
\* the user keeps role user
C21_SeedKeptUser ==
    /\ Quiet
    /\ last.op = "seed" /\ last.detail = "Data seeded successfully"
    /\ \E x \in users : x.email = AdminEmail /\ x.role = "user"
    /\ \A x \in users : x.role = "user"

\* C23: whatever the number of seed requests, repeated or overlapping, the
\* catalog holds no more than the demo products and the store holds at most
\* one admin account.
C23_SeedIdempotent ==
    /\ Cardinality(DOMAIN products) <= DemoCount
    /\ Cardinality({x \in users : x.role = "admin"}) <= 1

\* the stored role of a caller, "" for a caller no stored user matches
RoleOf(u) == IF \E x \in users : x.id = u THEN (CHOOSE x \in users : x.id = u).role ELSE ""

\* a request to an admin-only route is answered on arrival in this step
AdminAnswered == req' = req /\ last'.op \in AdminOps /\ (last' # last \/ db' # db)

\* C22: a request to an admin-only route goes on or takes effect only for a
\* caller whose stored role is admin; a caller with a valid token and role user
\* is answered 403, a caller without a valid token 401, and neither changes
\* the catalog or any other stored document; the catalog changes in no other
\* way; the token a login with the admin's email returns is that of a user
\* whose stored role is admin, and such a caller is never answered 401 or 403.
C22_AdminOnly ==
    [][/\ \A r \in Slots :
            (req'[r] # req[r] /\ req'[r].op \in AdminOps) => RoleOf(req'[r].user) = "admin"
       /\ AdminAnswered =>
            /\ RoleOf(last'.user) = "" => (last'.code = 401 /\ db' = db)
            /\ RoleOf(last'.user) = "user" => (last'.code = 403 /\ db' = db)
            /\ RoleOf(last'.user) = "admin" => last'.code \notin {401, 403}
       /\ db' # db =>
            \/ AdminAnswered /\ RoleOf(last'.user) = "admin"
            \/ \E r \in Slots : /\ req'[r] # req[r]
                                 /\ req'[r].op \in AdminOps
                                 /\ RoleOf(req'[r].user) = "admin"
       /\ (/\ req' = req /\ last' # last
           /\ last'.op = "login" /\ last'.code = 200 /\ last'.email = AdminEmail) =>
              RoleOf(last'.user) = "admin"]_vars

\* a user was refused the deletion of a product after the admin had repriced
\* it: the product is still in the catalog
C22_UserRefused ==
    /\ Quiet
    /\ last.op = "delete_product" /\ last.user = "u1" /\ last.code = 403
    /\ DOMAIN products = ProductIds
    /\ products["p1"].price = 2

\* the request that sets fields of a product in this step, if there is one
Setting(rq) ==
    /\ rq.op = "update_product"
    /\ \/ \E r \in Slots : req[r].pc = "idle" /\ req'[r] = rq /\ rq.pc = "up_read"
       \/ req' = req /\ last' = rq /\ (last' # last \/ products' # products)

\* C24: an update of a product by an admin is answered 400 and changes nothing
\* when the payload sets no field, is answered 404 and changes nothing when no
\* product has the id, and otherwise sets exactly the fields of the payload on
\* that product: its other fields and the other products stay as they were.
C24_UpdateFrame ==
    [][\A rq \in {req'[r] : r \in Slots} \cup {last'} :
         (Setting(rq) /\ RoleOf(rq.user) = "admin") =>
            IF DOMAIN rq.payload = {}
            THEN rq.code = 400 /\ db' = db
            ELSE IF rq.pid \notin DOMAIN products
            THEN rq.code = 404 /\ db' = db
            ELSE /\ rq.pc = "up_read"
                 /\ DOMAIN products' = DOMAIN products
                 /\ \A p \in DOMAIN products \ {rq.pid} : products'[p] = products[p]
                 /\ DOMAIN products'[rq.pid] = DOMAIN products[rq.pid]
                 /\ \A f \in DOMAIN products[rq.pid] :
                       products'[rq.pid][f] = IF f \in DOMAIN rq.payload
                                              THEN rq.payload[f]
                                              ELSE products[rq.pid][f]
                 /\ <<users, carts, txns, orders>>' = <<users, carts, txns, orders>>]_vars

\* an update that set the stock alone has kept the price an earlier update set
C24_StockOnly ==
    /\ Quiet
    /\ last.op = "update_product" /\ last.code = 200
    /\ last.payload = [stock |-> 5]
    /\ products["p1"] = [price |-> 2, stock |-> 5, created_at |-> "seeded"]
    /\ "p2" \in DOMAIN products

\* C25: in every reachable state each transaction is pending/initiated or
\* complete/paid, and a transaction that is complete/paid stays so through
\* every step of a poll, a webhook delivery or a create-session request.
C25_TxnOneWay ==
    /\ [](\A k \in 1..Len(txns) :
            <<txns[k].status, txns[k].payment_status>>
                \in {<<"pending", "initiated">>, <<"complete", "paid">>})
    /\ [][\A k \in 1..Len(txns) :
            txns[k].payment_status = "paid" =>
                /\ Len(txns') >= k
                /\ txns'[k].session_id = txns[k].session_id
                /\ txns'[k].status = "complete"
                /\ txns'[k].payment_status = "paid"]_vars

\* a paid event was delivered for a transaction a poll had already completed,
\* while the transaction of a later session is pending
C25_PaidAgain ==
    /\ Quiet
    /\ last.op = "webhook" /\ last.verified /\ last.paid /\ ~last.logged
    /\ TxnPaid(txns, last.sid)
    /\ OrdersOf(orders, last.sid) # {}
    /\ \E k \in 1..Len(txns) : txns[k].session_id # last.sid /\ txns[k].status = "pending"

\* a status request is answered in this step
StatusReturns ==
    \/ \E r \in Slots : req[r].op = "status" /\ req'[r].pc = "idle"
    \/ req' = req /\ last'.op = "status" /\ (last' # last \/ db' # db)

\* C26: with one request at a time, a status request that is answered 200
\* returns the status, payment_status, amount_total and currency the provider
\* holds for the session, whether or not it marked the transaction; when the
\* provider does not report paid the request changes no stored document; no
\* transaction is paid whose session the provider does not hold as paid.
C26_PureRead ==
    /\ [](\A k \in 1..Len(txns) :
            txns[k].payment_status = "paid" => psess[txns[k].session_id].paid)
    /\ [][StatusReturns =>
            /\ last'.code = 200 =>
                  /\ last'.sid \in 1..Len(psess')
                  /\ last'.st.status = IF psess'[last'.sid].paid THEN "complete" ELSE "open"
                  /\ last'.st.payment_status
                        = IF psess'[last'.sid].paid THEN "paid" ELSE "unpaid"
                  /\ last'.st.amount_total = psess'[last'.sid].amount_total
                  /\ last'.st.currency = psess'[last'.sid].currency
            /\ last'.st.payment_status # "paid" => db' = db]_vars

\* an unpaid session was polled: its transaction is pending and the cart is
\* as it was
C26_Unpaid ==
    /\ Quiet
    /\ last.op = "status" /\ last.code = 200
    /\ last.st.payment_status = "unpaid"
    /\ last.st.amount_total = AmountTotal(2)
    /\ TxnPending(txns, last.sid)
    /\ CartItemsOf(carts, last.user) = <<LineItem("p1", 2)>>

\* the list an add computes from the list it read
Merged(items, item) ==
    IF HasTriple(items, item)
    THEN [k \in 1..Len(items) |->
            IF SameTriple(items[k], item)
            THEN [items[k] EXCEPT !.quantity = @ + item.quantity]
            ELSE items[k]]
    ELSE items \o <<item>>

\* the list an update computes from the list it read
Replaced(items, item) ==
    IF ~HasTriple(items, item) THEN items
    ELSE IF item.quantity <= 0 THEN Without(items, item)
    ELSE [k \in 1..Len(items) |->
            IF SameTriple(items[k], item)
            THEN [items[k] EXCEPT !.quantity = item.quantity]
            ELSE items[k]]

\* C27: under overlapping adds and updates of one user, each write stores
\* the whole list the call computed from its own read, whatever the other call
\* has written since (whose effect is then lost); a stored list changes only
\* by such a write or by a clear, so no list is stored that no call wrote.
C27_LastWriterWins ==
    [][/\ \A r \in Slots :
            Writes(r, "add_write") =>
                CartItemsOf(carts', req[r].user) = Merged(req[r].items, req[r].item)
       /\ \A r \in Slots :
            Writes(r, "upd_write") =>
                CartItemsOf(carts', req[r].user) = Replaced(req[r].items, req[r].item)
       /\ \A k \in 1..Len(carts) :
            carts'[k].items # carts[k].items =>
                \/ \E r \in Slots : /\ (Writes(r, "add_write") \/ Writes(r, "upd_write"))
                                     /\ req[r].user = carts[k].user_id
                \/ /\ req' = req
                   /\ last'.op = "clear" /\ last'.user = carts[k].user_id
                   /\ carts'[k].items = <<>>]_vars

\* one of two overlapping adds has written and was answered; the other read
\* the cart before that write and is about to write its own list
C27_StaleRead ==
    \E r \in Slots :
        /\ req[r].pc = "add_write"
        /\ req[r].item = LineItem("p2", 1)
        /\ req[r].items = <<>>
        /\ last.op = "add" /\ last.user = req[r].user
        /\ CartItemsOf(carts, req[r].user) = <<LineItem("p1", 1)>>

\* C30: every line item a status request removes from the cart when it
\* empties it is among the items of an order of that request's session, also
\* when an add or update of the same user runs between the read of the cart
\* and the write that empties it.
C30_ClearedItemsOrdered ==
    [][\A r \in Slots :
         Writes(r, "st_clear") =>
            \E k \in OrdersOf(orders, req[r].sid) :
                /\ orders[k].user_id = req[r].user
                /\ \A i \in 1..Len(CartItemsOf(carts, req[r].user)) :
                      \E j \in 1..Len(orders[k].items) :
                          orders[k].items[j] = CartItemsOf(carts, req[r].user)[i]]_vars

\* C28: every order belongs to the user of the transaction stored for its
\* session, and a status request of a user other than that user changes no
\* transaction, order or cart.
C28_OrderOwner ==
    /\ \A k \in 1..Len(orders) :
          FirstTxn(txns, orders[k].payment_session_id) # 0 =>
              txns[FirstTxn(txns, orders[k].payment_session_id)].user_id = orders[k].user_id
    /\ (/\ PolledPaid
        /\ FirstTxn(pre.txns, last.sid) # 0
        /\ pre.txns[FirstTxn(pre.txns, last.sid)].user_id # last.user) =>
           (txns = pre.txns /\ orders = pre.orders /\ carts = pre.carts)

\* C29: in every reachable state the payment_session_id of each order is the
\* session_id of a stored transaction that is complete/paid; with one request
\* at a time, a status request for a session without a stored transaction
\* stores no order and changes no cart, also when the provider reports paid.
C29_OrderHasPaidTxn ==
    /\ \A k \in 1..Len(orders) :
          /\ TxnPaid(txns, orders[k].payment_session_id)
          /\ txns[FirstTxn(txns, orders[k].payment_session_id)].status = "complete"
    /\ (PolledPaid /\ FirstTxn(pre.txns, last.sid) = 0) =>
           (orders = pre.orders /\ carts = pre.carts /\ txns = pre.txns)

\* a user with an item in the cart has polled a paid session for which no
\* transaction is stored
C29_NoTxn ==
    /\ PolledPaid
    /\ FirstTxn(txns, last.sid) = 0
    /\ CartItemsOf(carts, last.user) # <<>>
    /\ orders = <<>>

\* C31: the line items of every order are the line items the create-session
\* call of its payment session priced, so that the order's total is the sum,
\* over the order's own line items, of the price at session creation times the
\* quantity, whatever the cart's owner did to the cart between create-session
\* and the status request that confirmed the payment. No request of the
\* specification it is checked under changes the catalog, so the price at
\* session creation is the catalog's price.
C31_OrderItemsPriced ==
    \A k \in 1..Len(orders) :
        orders[k].total = CartSum(orders[k].items, products)

=============================================================================
